---- MODULE Spec2Model ----
(***************************************************************************)
(* Post lifecycle, scheduling, publish orchestration and repost engine of  *)
(* bulkig-pro (apps/ig-poster): Scheduler (scheduler.ts), Publisher        *)
(* (publisher.ts) and the administrative endpoints of index.ts.            *)
(*                                                                         *)
(* Time is counted in seconds since the JavaScript epoch (Thursday 00:00); *)
(* the store is the array Scheduler.posts, kept as a sequence of records.  *)
(***************************************************************************)
EXTENDS Integers, Sequences, FiniteSets, Bags, TLC

VARIABLES
  posts,        \* Scheduler.posts: the store, in insertion order
  detached,     \* Post objects spliced out of the store but still held by a publish loop
  autorun,      \* Scheduler.autorun
  lastPlanRun,  \* Scheduler.lastPlanRun
  config,       \* Scheduler.config
  now,          \* the wall clock (Date.now())
  loops,        \* the publishLoop invocations in flight, suspended at an await (a bag)
  lastCalls,    \* the publishPost calls that returned in the step just taken
  lastReposts,  \* the scheduleRepostFromId calls made in the step just taken
  hist,         \* the other calls made in the step just taken, by kind
  nextRef,      \* allocation counter: the identity of the next Post object
  collisions    \* how often a generated id has repeated an existing one

vars ==
  <<posts, detached, autorun, lastPlanRun, config, now, loops, lastCalls, lastReposts,
    hist, nextRef, collisions>>

(***************************************************************************)
(* Bounds of the model                                                     *)
(***************************************************************************)
\* the publish orchestration runs (Spec)
MaxPosts == 1
MaxCreated == 1
MaxLoops == 2
MaxHourSteps == 1
MaxCollisions == 0

\* the runs with several posts ready at once (SpecTicks)
MaxReadyPosts == 2

\* the runs of the repost engine (SpecRepost)
MaxRepostPosts == 3
MaxRepostCreated == 5
MaxRepostLoops == 1
MaxDaySteps == 1

\* manual repost requests: the original and its repost children
MaxManualPosts == 4

\* a chain with reposts published more than once (SpecChain)
MaxChainPosts == 3

\* posts created at one clock reading (SpecIds)
MaxIdPosts == 2
MaxIdCollisions == 1

\* the posts of a process in mock mode (SpecMock)
MaxMockPosts == 1

\* the runs of planning and preview (SpecPreview)
MaxPlannedPosts == 2
MaxPreviewCount == 3
MaxPreviewHourSteps == 1

Files == {"a.jpg"}
TwoFiles == {"a.jpg", "b.jpg"}
StartTimes == {3600}

\* [posts: size of the store, created: Post objects ever allocated, loops:
\*  publishLoop invocations in flight, hours/days: clock steps, collisions: id repeats]
Bounds ==
  [posts |-> MaxPosts, created |-> MaxCreated, loops |-> MaxLoops,
   hours |-> MaxHourSteps, days |-> 0, collisions |-> MaxCollisions, files |-> Files]

(***************************************************************************)
(* Program constants                                                       *)
(***************************************************************************)
OneHour == 3600
OneDay == 86400
SixtyDays == 60 * 24 * 60 * 60
RepostLimit == 3
DefaultIntervalHours == 4
PostNowBackdate == 1
EpochWeekday == 4

NoTime == -1
NoId == <<-1, -1>>
Undef == -1
NoMessage == ""

Statuses == {"QUEUED", "SCHEDULED", "PUBLISHING", "PUBLISHED", "ERROR"}

\* (post as any).platforms: absent, or { instagram, facebook: { enabled } }
PlatformValues == {"undefined", "ig", "ig+fb", "fb", "none"}

\* platforms.instagram !== false
IgSelected(pl) == pl \in {"undefined", "ig", "ig+fb"}

\* platforms.facebook && platforms.facebook.enabled
FbEnabled(pl) == pl \in {"ig+fb", "fb"}

(***************************************************************************)
(* Sequence helpers                                                        *)
(***************************************************************************)
Range(s) == {s[i] : i \in DOMAIN s}

\* Array.prototype.filter: keeps the order of the array
RECURSIVE FilterIdx(_, _, _)
FilterIdx(s, keep, i) ==
  IF i > Len(s) THEN <<>>
  ELSE IF i \in keep THEN <<i>> \o FilterIdx(s, keep, i + 1)
       ELSE FilterIdx(s, keep, i + 1)

\* Array.prototype.findIndex: first index satisfying the test, 0 when none
FirstIdx(s, hit) == IF hit = {} THEN 0 ELSE CHOOSE i \in hit : \A j \in hit : i <= j

RemoveAt(s, i) == [j \in 1..(Len(s) - 1) |-> IF j < i THEN s[j] ELSE s[j + 1]]

\* Object.assign(post, updates)
Merge(p, patch) == [f \in DOMAIN p |-> IF f \in DOMAIN patch THEN patch[f] ELSE p[f]]

(***************************************************************************)
(* Scheduler.preview                                                       *)
(***************************************************************************)
\* Date.getDay() of an instant
Weekday(t) == ((t \div OneDay) + EpochWeekday) % 7

DayStart(t) == (t \div OneDay) * OneDay

\* an 'HH:MM' string is kept as the number HHMM (two digits each), so that the
\* order of the strings is the order of the numbers
DefaultTimes == <<900, 1300, 1700, 2100>>

\* an inner while that leaves the cursor where it is
StayOnDay(cursor, days, fuel) == cursor

\* inner while of interval mode: cursor.setDate(cursor.getDate() + 1) until allowed
RECURSIVE SkipToAllowedDay(_, _, _)
SkipToAllowedDay(cursor, days, fuel) ==
  IF Weekday(cursor) \in days \/ fuel = 0 THEN cursor
  ELSE SkipToAllowedDay(cursor + OneDay, days, fuel - 1)

RECURSIVE PreviewInterval(_, _, _, _, _)
PreviewInterval(cursor, out, count, hours, days) ==
  IF Len(out) >= count THEN out
  ELSE LET pushed == IF Weekday(cursor) \in days THEN Append(out, cursor) ELSE out
           next == SkipToAllowedDay(cursor + hours * OneHour, days, 7)
       IN PreviewInterval(next, pushed, count, hours, days)

\* for (const t of times) of one day; stops as soon as count is reached
RECURSIVE PreviewDayTimes(_, _, _, _, _, _)
PreviewDayTimes(day, times, i, from, out, count) ==
  IF i > Len(times) THEN out
  ELSE LET candidate == day + (times[i] \div 100) * OneHour + (times[i] % 100) * 60
           pushed == IF candidate >= from THEN Append(out, candidate) ELSE out
       IN IF Len(pushed) >= count THEN pushed
          ELSE PreviewDayTimes(day, times, i + 1, from, pushed, count)

RECURSIVE PreviewTimes(_, _, _, _, _, _)
PreviewTimes(cursor, out, count, times, days, from) ==
  IF Len(out) >= count THEN SubSeq(out, 1, count)
  ELSE LET pushed == IF Weekday(cursor) \in days
                     THEN PreviewDayTimes(DayStart(cursor), times, 1, from, out, count)
                     ELSE out
       IN PreviewTimes(DayStart(cursor) + OneDay, pushed, count, times, days, from)

\* both loops of preview spin forever when no weekday is allowed
PreviewDiverges(c) == c.days = {}

Max(a, b) == IF a >= b THEN a ELSE b

Preview(c, from, count) ==
  IF c.mode = "interval"
  THEN PreviewInterval(from, <<>>, count, Max(1, c.intervalHours), c.days)
  ELSE PreviewTimes(from, <<>>, count,
                    IF Len(c.times) > 0 THEN c.times ELSE DefaultTimes, c.days, from)

\* a preview that stores the times it falls back to
ConfigWithDefaultTimes(c) ==
  [c EXCEPT !.times = IF Len(c.times) > 0 THEN c.times ELSE DefaultTimes]

\* this.config after a preview call: the call only reads it, daysSet, mode and
\* times are locals
ConfigAfterPreview(c) == c

\* the Date passed as from after a preview call: let cursor = new Date(from) is a
\* copy, and setDate and setHours are called on the copy only
FromAfterPreview(c, from, count) == from

(***************************************************************************)
(* Scheduler: the store                                                    *)
(***************************************************************************)
NoOverrides == [f \in {} |-> 0]

\* `post_${Date.now()}_${Math.floor(Math.random() * 1000)}`: the clock reading
\* and a random number; rands already used at this clock reading can repeat
UsedRands(ps, det, t) ==
  {p.id[2] : p \in {q \in Range(ps) \cup det : q.id[1] = t}}

FreshRand(used) == CHOOSE r \in 0..Cardinality(used) : r \notin used /\ \A q \in 0..(r - 1) : q \in used

RandChoices(ps, det, t, coll, b) ==
  {FreshRand(UsedRands(ps, det, t))} \cup
  (IF coll < b.collisions THEN UsedRands(ps, det, t) ELSE {})

IsCollision(ps, det, t, r) == r \in UsedRands(ps, det, t)

\* posts.find(p => p.id === postId), as an index (0: not found)
FindById(ps, id) == FirstIdx(ps, {i \in DOMAIN ps : ps[i].id = id})

\* Scheduler.updatePost
UpdatePost(ps, id, patch) ==
  LET i == FindById(ps, id)
  IN IF i = 0 THEN ps ELSE [ps EXCEPT ![i] = Merge(ps[i], patch)]

\* the object literal of Scheduler.queueFile
NewPost(ref, id, filename, ov, t) ==
  [ ref |-> ref,
    id |-> id,
    filename |-> filename,
    status |-> IF "status" \in DOMAIN ov THEN ov.status ELSE "QUEUED",
    scheduled_at |-> IF "scheduled_at" \in DOMAIN ov THEN ov.scheduled_at ELSE t,
    created_at |-> t,
    is_repost |-> FALSE,
    original_post_id |-> NoId,
    repost_count |-> 0,
    published_at |-> IF "published_at" \in DOMAIN ov THEN ov.published_at ELSE NoTime,
    error_message |-> IF "error_message" \in DOMAIN ov THEN ov.error_message ELSE NoMessage,
    platforms |-> "undefined" ]

\* queueFile looking only for a QUEUED post of that filename
QueueFileQueuedOnly(ps, filename, ov, t, ref, id) ==
  LET existing == FirstIdx(ps, {i \in DOMAIN ps :
                     ps[i].filename = filename /\ ps[i].status = "QUEUED"})
  IN IF existing # 0
     THEN [posts |-> ps, idx |-> existing, created |-> FALSE]
     ELSE [posts |-> Append(ps, NewPost(ref, id, filename, ov, t)),
           idx |-> Len(ps) + 1, created |-> TRUE]

\* Scheduler.queueFile: the store afterwards and the index of the returned post
QueueFile(ps, filename, ov, t, ref, id) ==
  LET existing == FirstIdx(ps, {i \in DOMAIN ps :
                     ps[i].filename = filename /\ ps[i].status \in {"QUEUED", "SCHEDULED"}})
  IN IF existing # 0
     THEN [posts |-> ps, idx |-> existing, created |-> FALSE]
     ELSE [posts |-> Append(ps, NewPost(ref, id, filename, ov, t)),
           idx |-> Len(ps) + 1, created |-> TRUE]

\* Scheduler.planPosts
\* a planner that gives a timestamp to every post not yet taken by a tick
PlanAllOpen(ps, c, t) ==
  [i \in DOMAIN ps |->
     IF ps[i].status \in {"QUEUED", "SCHEDULED"}
     THEN Merge(ps[i], [scheduled_at |-> t, status |-> "SCHEDULED"])
     ELSE ps[i]]

PlanPosts(ps, c, t) ==
  LET queued == FilterIdx(ps, {i \in DOMAIN ps : ps[i].status = "QUEUED"}, 1)
      times == IF Len(queued) = 0 THEN <<>> ELSE Preview(c, t, Len(queued))
      Rank(i) == CHOOSE k \in DOMAIN queued : queued[k] = i
      TimeOf(k) == IF k <= Len(times) THEN times[k] ELSE t + k * OneHour
  IN [i \in DOMAIN ps |->
        IF ps[i].status = "QUEUED"
        THEN Merge(ps[i], [scheduled_at |-> TimeOf(Rank(i)), status |-> "SCHEDULED"])
        ELSE ps[i]]

\* Scheduler.getReadyPosts: the indices of the ready posts, in the order returned
GetReadyPosts(ps, t) ==
  FilterIdx(ps, {i \in DOMAIN ps : ps[i].status = "SCHEDULED" /\ ps[i].scheduled_at <= t}, 1)

\* Scheduler.removePost
RemovePost(ps, id) ==
  LET i == FindById(ps, id)
  IN IF i = 0 THEN ps ELSE RemoveAt(ps, i)

(***************************************************************************)
(* Scheduler: reposts                                                      *)
(***************************************************************************)
\* a root lookup that takes the requested post itself for the root
OwnId(p) == p.id

\* Scheduler.getRootOriginalId
GetRootOriginalId(p) ==
  IF p.is_repost /\ p.original_post_id # NoId THEN p.original_post_id ELSE p.id

IsChildOf(p, rootId) == p.is_repost /\ p.original_post_id = rootId

IsPending(p) == p.status \in {"QUEUED", "SCHEDULED", "PUBLISHING"}

MaxOf(S) == CHOOSE m \in S : \A x \in S : x <= m

\* Scheduler.getRepostStats
GetRepostStats(ps, rootId) ==
  LET belongs == {i \in DOMAIN ps : ps[i].id = rootId \/ IsChildOf(ps[i], rootId)}
      published == {ps[i].published_at : i \in
                      {j \in belongs : ps[j].status = "PUBLISHED" /\ ps[j].published_at # NoTime}}
      children == {i \in DOMAIN ps : IsChildOf(ps[i], rootId)}
  IN [ totalReposts |-> Cardinality(children),
       pendingReposts |-> Cardinality({i \in children : IsPending(ps[i])}),
       lastPublishedAt |-> IF published = {} THEN NoTime ELSE MaxOf(published) ]

\* the object literal of Scheduler.scheduleRepostFromId
NewRepost(ref, id, root, rootId, t) ==
  [ ref |-> ref,
    id |-> id,
    filename |-> root.filename,
    status |-> "QUEUED",
    scheduled_at |-> t,
    created_at |-> t,
    is_repost |-> TRUE,
    original_post_id |-> rootId,
    repost_count |-> Undef,
    published_at |-> NoTime,
    error_message |-> NoMessage,
    platforms |-> "undefined" ]

\* the duplicate test switched off
PendingNeverBlocks(stats, reason) == FALSE

\* if (pendingReposts > 0 && reason === 'auto') return null
PendingBlocks(stats, reason) == stats.pendingReposts > 0 /\ reason = "auto"

\* if (totalReposts >= 3) return null
LimitBlocks(stats) == stats.totalReposts >= RepostLimit

\* the 60-day rule applied to every reason
CooldownBlocksAnyReason(stats, root, reason, t) ==
  LET baseDate == IF stats.lastPublishedAt # NoTime THEN stats.lastPublishedAt
                  ELSE IF root.published_at # NoTime THEN root.published_at
                  ELSE root.created_at
  IN (t - baseDate) < SixtyDays

\* the 60-day rule of the auto reason
CooldownBlocks(stats, root, reason, t) ==
  /\ reason = "auto"
  /\ LET baseDate == IF stats.lastPublishedAt # NoTime THEN stats.lastPublishedAt
                      ELSE IF root.published_at # NoTime THEN root.published_at
                      ELSE root.created_at
     IN (t - baseDate) < SixtyDays

\* root.repost_count = (root.repost_count || 0) + 1
RepostCountAfter(count) == (IF count \in {Undef, 0} THEN 0 ELSE count) + 1

\* Scheduler.scheduleRepostFromId: the store afterwards; created is FALSE for null
ScheduleRepostFromId(ps, postId, reason, t, ref, id) ==
  LET null == [posts |-> ps, created |-> FALSE]
      o == FindById(ps, postId)
  IN IF o = 0 THEN null
     ELSE LET rootId == GetRootOriginalId(ps[o])
              r == FindById(ps, rootId)
          IN IF r = 0 THEN null
             ELSE IF ps[r].status # "PUBLISHED" /\ reason = "manual" THEN null
             ELSE LET stats == GetRepostStats(ps, rootId)
                  IN IF LimitBlocks(stats) THEN null
                     ELSE IF PendingBlocks(stats, reason) THEN null
                     ELSE IF CooldownBlocks(stats, ps[r], reason, t) THEN null
                     ELSE LET pushed == Append(ps, NewRepost(ref, id, ps[r], rootId, t))
                          IN [posts |-> [pushed EXCEPT ![r].repost_count =
                                           RepostCountAfter(ps[r].repost_count)],
                              created |-> TRUE]

\* the children of a root that are QUEUED, SCHEDULED or PUBLISHING
PendingChildren(ps, rootId) ==
  {i \in DOMAIN ps : IsChildOf(ps[i], rootId) /\ IsPending(ps[i])}

\* what one scheduleRepostFromId call found and did, noted when it returns:
\* rootStatus and count are the root's status and repost_count before the call,
\* lastEvent the latest published_at held by the root or one of its children
RepostCall(ps, postId, reason, res) ==
  LET o == FindById(ps, postId)
      rootId == IF o = 0 THEN NoId ELSE GetRootOriginalId(ps[o])
      r == FindById(ps, rootId)
      events == {ps[i].published_at : i \in
                   {j \in DOMAIN ps : /\ ps[j].id = rootId \/ IsChildOf(ps[j], rootId)
                                      /\ ps[j].published_at # NoTime}}
  IN [root |-> rootId, reason |-> reason, requested |-> postId,
      before |-> ps, after |-> res.posts,
      pending |-> Cardinality(PendingChildren(ps, rootId)),
      created |-> res.created, changed |-> res.posts # ps,
      rootStatus |-> IF r = 0 THEN "removed" ELSE ps[r].status,
      count |-> IF r = 0 THEN Undef ELSE ps[r].repost_count,
      lastEvent |-> IF events = {} THEN NoTime ELSE MaxOf(events)]

\* the for loop of Scheduler.autoRepostTick over the snapshot of published roots;
\* rs[k] is the random part of the id generated for the k-th root, and 0 where the
\* call generates no id
RECURSIVE AutoRepostAll(_, _, _, _, _, _, _, _, _, _)
AutoRepostAll(ps, det, roots, k, rs, t, ref, coll, b, calls) ==
  IF k > Len(roots)
  THEN [posts |-> ps, nextRef |-> ref, collisions |-> coll, valid |-> TRUE, calls |-> calls]
  ELSE LET res == ScheduleRepostFromId(ps, roots[k], "auto", t, ref, <<t, rs[k]>>)
           noted == calls \cup {RepostCall(ps, roots[k], "auto", res)}
       IN IF ~res.created
          THEN IF rs[k] # 0
               THEN [posts |-> ps, nextRef |-> ref, collisions |-> coll, valid |-> FALSE,
                     calls |-> noted]
               ELSE AutoRepostAll(ps, det, roots, k + 1, rs, t, ref, coll, b, noted)
          ELSE IF rs[k] \notin RandChoices(ps, det, t, coll, b) \/ ref > b.created
                  \/ Len(ps) >= b.posts
               THEN [posts |-> ps, nextRef |-> ref, collisions |-> coll, valid |-> FALSE,
                     calls |-> noted]
               ELSE AutoRepostAll(res.posts, det, roots, k + 1, rs, t, ref + 1,
                                  IF IsCollision(ps, det, t, rs[k]) THEN coll + 1 ELSE coll,
                                  b, noted)

(***************************************************************************)
(* Publisher                                                               *)
(***************************************************************************)
Loops == BagToSet(loops)

\* was: the status publishPost found the post in when it set it to PUBLISHING
IdleLoop == [pc |-> "idle", queue |-> <<>>, cur |-> 0, curId |-> NoId,
             platforms |-> "undefined", igOk |-> FALSE, was |-> "none"]

StatusOf(ps, id) == IF FindById(ps, id) = 0 THEN "removed" ELSE ps[FindById(ps, id)].status

\* the Post object behind a reference held by a publish loop
Obj(ps, det, ref) == CHOOSE o \in Range(ps) \cup det : o.ref = ref

NoPlatformSucceeded == "No platform succeeded"

\* the final check with the Facebook outcome left out
SetsErrorIgnoringFacebook(pl, igOk, fbOk) == ~igOk

\* if (!igOk && !(platforms.facebook && platforms.facebook.enabled && fbOk))
SetsError(pl, igOk, fbOk) == ~igOk /\ ~(FbEnabled(pl) /\ fbOk)

\* a publishPost that lets the failure of its post escape to the for loop
PublishPostThrowsOnError(pl, igOk, fbOk) == ~igOk /\ ~(FbEnabled(pl) /\ fbOk)

\* publishPost ends every failure in one of its catch blocks: nothing is thrown
\* into the for loop of publishLoop
PublishPostThrows(pl, igOk, fbOk) == FALSE

\* the posts the for loop of publishLoop still visits after a publishPost call
RestOfTick(queue, pl, igOk, fbOk) ==
  IF PublishPostThrows(pl, igOk, fbOk) THEN <<>> ELSE queue

\* the final status handling of Publisher.publishPost
FinalStatus(ps, id, pl, igOk, fbOk) ==
  IF SetsError(pl, igOk, fbOk)
  THEN UpdatePost(ps, id, [status |-> "ERROR", error_message |-> NoPlatformSucceeded])
  ELSE ps

\* what one publishPost call did, noted when it returns
CallRecord(ref, pl, igOk, fbOk, was) ==
  [ref |-> ref, platforms |-> pl, igOk |-> igOk, fbOk |-> fbOk, was |-> was,
   setError |-> SetsError(pl, igOk, fbOk)]

\* the for loop of Publisher.publishLoop from the next post of its snapshot up to
\* the first await on a remote call: publishPost sets PUBLISHING, picks the
\* platforms, and returns at once when no platform is selected
RECURSIVE RunLoop(_, _, _, _)
RunLoop(ps, det, queue, calls) ==
  IF queue = <<>>
  THEN [posts |-> ps, loop |-> IdleLoop, calls |-> calls]
  ELSE LET post == Obj(ps, det, Head(queue))
           pl == post.platforms
           publishing == UpdatePost(ps, post.id, [status |-> "PUBLISHING"])
           waiting == [pc |-> "ig", queue |-> Tail(queue), cur |-> post.ref,
                       curId |-> post.id, platforms |-> pl, igOk |-> FALSE,
                       was |-> StatusOf(ps, post.id)]
       IN IF IgSelected(pl)
          THEN [posts |-> publishing, loop |-> waiting, calls |-> calls]
          ELSE IF FbEnabled(pl)
          THEN [posts |-> publishing, loop |-> [waiting EXCEPT !.pc = "fb"], calls |-> calls]
          ELSE RunLoop(FinalStatus(publishing, post.id, pl, FALSE, FALSE), det,
                       RestOfTick(Tail(queue), pl, FALSE, FALSE),
                       calls \cup {CallRecord(post.ref, pl, FALSE, FALSE,
                                              StatusOf(ps, post.id))})

\* Publisher.publishLoop up to its first await
PublishLoop(ps, det, enabled, t) ==
  IF ~enabled
  THEN [posts |-> ps, loop |-> IdleLoop, calls |-> {}]
  ELSE LET ready == GetReadyPosts(ps, t)
       IN RunLoop(ps, det, [k \in DOMAIN ready |-> ps[ready[k]].ref], {})

\* the objects a loop can still reach
Held(ls) == UNION {Range(l.queue) \cup {l.cur} : l \in BagToSet(ls)}

\* a returned publishLoop leaves the bag of invocations in flight
Started(ls, new) == IF new.pc = "idle" THEN ls ELSE ls (+) SetToBag({new})

Resumed(ls, old, new) == Started(ls (-) SetToBag({old}), new)

(***************************************************************************)
(* The Instagram protocol: igCreateContainer, igWaitFinished, igPublish    *)
(***************************************************************************)
\* { retries: 20 } of igWaitFinished: the polls allowed after the first one
WaitRetries == 20

\* the remote side as one publishPost call meets it: whether the create request
\* returns an id, how many polls answer neither FINISHED nor ERROR, the
\* status_code of the polls after those, whether the publish request returns an id
NotReadyCounts == {0, 1, WaitRetries - 1, WaitRetries, WaitRetries + 1}

Scripts ==
  [create : BOOLEAN, notReady : NotReadyCounts, after : {"FINISHED", "ERROR"},
   publish : BOOLEAN]

\* j.status_code of the n-th poll
PollAnswer(script, n) == IF n <= script.notReady THEN "IN_PROGRESS" ELSE script.after

\* a poll function that treats ERROR like any other unfinished status
PollNeverAborts(a) == FALSE

\* if (j.status_code === 'ERROR') throw new pRetry.AbortError(...)
PollAborts(a) == a = "ERROR"

\* a wait that gives up at the first 'not ready'
WaitNeverRetries(n) == TRUE

\* pRetry gives up when attempt n failed and the retries are used up
WaitExhausted(n) == n > WaitRetries

\* igWaitFinished from its n-th poll on
RECURSIVE IgWaitFinished(_, _)
IgWaitFinished(script, n) ==
  LET a == PollAnswer(script, n)
  IN IF a = "FINISHED" THEN [ok |-> TRUE, polls |-> n, aborted |-> FALSE]
     ELSE IF PollAborts(a) THEN [ok |-> FALSE, polls |-> n, aborted |-> TRUE]
     ELSE IF WaitExhausted(n) THEN [ok |-> FALSE, polls |-> n, aborted |-> FALSE]
     ELSE IgWaitFinished(script, n + 1)

\* the try block of publishPost's Instagram branch: finalized tells whether
\* igPublish was called, ok whether all three steps resolved
IgProtocol(script) ==
  IF ~script.create
  THEN [ok |-> FALSE, polls |-> 0, aborted |-> FALSE, finalized |-> FALSE]
  ELSE LET w == IgWaitFinished(script, 1)
       IN [ok |-> w.ok /\ script.publish, polls |-> w.polls, aborted |-> w.aborted,
           finalized |-> w.ok]

\* { retries: 5 } of igCreateContainer and igPublish: the fetches allowed after
\* the first one
FetchRetries == 5

\* how many of the first fetches of a request reject (a network failure)
FetchFailCounts == {0, 1, FetchRetries, FetchRetries + 1}

\* the remote side with failing fetches: createFails and publishFails fetches
\* reject before one resolves, createId and publishId tell whether the body of
\* the resolved response has an id
RetryScripts ==
  [createFails : FetchFailCounts, createId : BOOLEAN,
   notReady : {0, WaitRetries, WaitRetries + 1}, after : {"FINISHED", "ERROR"},
   publishFails : FetchFailCounts, publishId : BOOLEAN]

\* a pRetry that tries again whatever the number of failed attempts
FetchNeverGivesUp(n) == FALSE

\* pRetry gives up when fetch n rejected and the retries are used up
FetchExhausted(n) == n > FetchRetries

\* pRetry(() => fetch(...), { retries: 5 }) from its n-th fetch on
RECURSIVE FetchWithRetry(_, _)
FetchWithRetry(fails, n) ==
  IF n > fails THEN [ok |-> TRUE, attempts |-> n]
  ELSE IF FetchExhausted(n) THEN [ok |-> FALSE, attempts |-> n]
  ELSE FetchWithRetry(fails, n + 1)

\* igCreateContainer and igPublish: the retried fetch, then if (!j.id) throw
IgRequest(fails, hasId) ==
  LET r == FetchWithRetry(fails, 1)
  IN [ok |-> r.ok /\ hasId, attempts |-> r.attempts]

\* the try block of publishPost's Instagram branch with the fetches counted
IgProtocolCounted(script) ==
  LET c == IgRequest(script.createFails, script.createId)
      w == IgWaitFinished(script, 1)
      p == IgRequest(script.publishFails, script.publishId)
  IN IF ~c.ok
     THEN [ok |-> FALSE, creates |-> c.attempts, polls |-> 0, publishes |-> 0]
     ELSE IF ~w.ok
     THEN [ok |-> FALSE, creates |-> c.attempts, polls |-> w.polls, publishes |-> 0]
     ELSE [ok |-> p.ok, creates |-> c.attempts, polls |-> w.polls,
           publishes |-> p.attempts]

\* what the Instagram branch of one publishPost call met and how often it called
IgCountedCall(l, script, run) ==
  [ref |-> l.cur, id |-> l.curId, platforms |-> l.platforms, script |-> script,
   creates |-> run.creates, polls |-> run.polls, publishes |-> run.publishes,
   ok |-> run.ok]

\* a build in which the three functions call the remote side also in mock mode
MockIgnored(mock) == FALSE

\* if (cfg.mock) return ...: the first statement of each of the three functions
MockSkipsRemote(mock) == mock

\* the try block under a given cfg.mock: in mock mode no request is sent, no poll
\* is made and every step returns a synthetic value
IgProtocolWith(mock, script) ==
  IF MockSkipsRemote(mock)
  THEN [ok |-> TRUE, polls |-> 0, aborted |-> FALSE, finalized |-> TRUE]
  ELSE IgProtocol(script)

\* what the Instagram branch of one publishPost call met and did
IgCall(l, script, run) ==
  [ref |-> l.cur, id |-> l.curId, platforms |-> l.platforms, script |-> script,
   polls |-> run.polls, aborted |-> run.aborted, finalized |-> run.finalized,
   ok |-> run.ok]

(***************************************************************************)
(* The calls of the step just taken                                        *)
(***************************************************************************)
\* what one queueFile call found and did: the posts of that filename that were
\* QUEUED or SCHEDULED, the post returned, and whether the store changed
QueueCall(ps, filename, res) ==
  [filename |-> filename,
   matches |-> {i \in DOMAIN ps :
                  ps[i].filename = filename /\ ps[i].status \in {"QUEUED", "SCHEDULED"}},
   returned |-> res.idx, created |-> res.created, changed |-> res.posts # ps]

\* planPosts never returns when preview spins and there is a post to plan
PlanDiverges(ps, c) == PreviewDiverges(c) /\ \E i \in DOMAIN ps : ps[i].status = "QUEUED"

\* what one planPosts call was given: the QUEUED posts in store order and the
\* timestamps of preview(now, queuedPosts.length)
PlanCall(ps, c, t) ==
  LET queued == FilterIdx(ps, {i \in DOMAIN ps : ps[i].status = "QUEUED"}, 1)
  IN [diverged |-> PlanDiverges(ps, c), from |-> t, days |-> c.days,
      mode |-> c.mode, hours |-> Max(1, c.intervalHours),
      queued |-> [k \in DOMAIN queued |-> ps[queued[k]].ref],
      times |-> IF PreviewDiverges(c) \/ Len(queued) = 0 THEN <<>>
                ELSE Preview(c, t, Len(queued))]

\* what one preview call of GET /ig/schedule-preview was given and returned
PreviewCall(c, from, count) ==
  [diverged |-> PreviewDiverges(c), from |-> from, count |-> count, days |-> c.days,
   fromAfter |-> FromAfterPreview(c, from, count),
   mode |-> c.mode, hours |-> Max(1, c.intervalHours),
   times |-> IF Len(c.times) > 0 THEN c.times ELSE DefaultTimes,
   out |-> IF PreviewDiverges(c) THEN <<>> ELSE Preview(c, from, count)]

\* queued: queueFile calls, planned: planPosts calls, preview: preview calls
\* of GET /ig/schedule-preview, ig: runs of the Instagram protocol
\* what one post-now request found: the post it moved into the publish window, the
\* status it found it in, the autorun flag, and the platforms the post has then
PostNowCall(was, post, enabled) ==
  [ref |-> post.ref, id |-> post.id, was |-> was, autorun |-> enabled,
   platforms |-> post.platforms]

\* what one autoRepostTick call found: the flag, the store and the last plan run
\* before it, and how many reposts its scheduleRepostFromId calls created
AutoTickCall(enabled, ps, planRun, created) ==
  [enabled |-> enabled, before |-> ps, lastPlanRun |-> planRun, created |-> created]

NoHist ==
  [queued |-> {}, planned |-> {}, preview |-> {}, ig |-> {}, postNow |-> {}, autoTick |-> {},
   reschedule |-> {}]

(***************************************************************************)
(* Initial state: new Scheduler(), new Publisher(scheduler)                *)
(***************************************************************************)
DefaultConfig ==
  [mode |-> "interval", intervalHours |-> DefaultIntervalHours, days |-> 0..6,
   times |-> <<>>, autoRepostEnabled |-> FALSE]

InitWith(b) ==
  /\ posts = <<>>
  /\ detached = {}
  /\ autorun = FALSE
  /\ lastPlanRun = NoTime
  /\ config = DefaultConfig
  /\ now \in StartTimes
  /\ loops = EmptyBag
  /\ lastCalls = {}
  /\ lastReposts = {}
  /\ hist = NoHist
  /\ nextRef = 1
  /\ collisions = 0

CanCreate(b) == Len(posts) < b.posts /\ nextRef <= b.created

Ids == {posts[i].id : i \in DOMAIN posts}

\* detached objects no loop can reach any more are garbage
Collect(det, ls) == {o \in det : o.ref \in Held(ls)}

(***************************************************************************)
(* Scheduler.setConfig                                                     *)
(***************************************************************************)
\* the numbers of a request body are given in tenths, so that fractions of an
\* hour can be sent; Math.floor of such a number
Floor(tenths) == tenths \div 10

\* in a body, a time 'HH:MM' is the number HHMM and any other string is -1
SetConfigOp(c, u) ==
  [ mode |-> IF "mode" \in DOMAIN u /\ u.mode \in {"interval", "times"} THEN u.mode ELSE c.mode,
    intervalHours |-> IF "intervalHours" \in DOMAIN u /\ u.intervalHours > 0
                      THEN Max(1, Floor(u.intervalHours)) ELSE c.intervalHours,
    days |-> IF "days" \in DOMAIN u THEN {n \in u.days : n >= 0 /\ n <= 6} ELSE c.days,
    times |-> IF "times" \in DOMAIN u
              THEN SortSeq(SelectSeq(u.times, LAMBDA x : x >= 0 /\ x <= 9999),
                           LAMBDA a, b : a < b)
              ELSE c.times,
    autoRepostEnabled |-> IF "autoRepostEnabled" \in DOMAIN u
                          THEN u.autoRepostEnabled ELSE c.autoRepostEnabled ]

ConfigUpdates == {[autoRepostEnabled |-> TRUE], [autoRepostEnabled |-> FALSE]}

\* POST /ig/schedule-config
SetConfig(u) ==
  /\ config' = SetConfigOp(config, u)
  /\ lastCalls' = {}
  /\ lastReposts' = {}
  /\ hist' = NoHist
  /\ UNCHANGED <<posts, detached, autorun, lastPlanRun, now, loops, nextRef, collisions>>

\* POST /ig/autorun
SetAutorun(enabled) ==
  /\ autorun' = enabled
  /\ lastCalls' = {}
  /\ lastReposts' = {}
  /\ hist' = NoHist
  /\ UNCHANGED <<posts, detached, lastPlanRun, config, now, loops, nextRef, collisions>>

(***************************************************************************)
(* The clock                                                               *)
(***************************************************************************)
ShortStep == DefaultIntervalHours * OneHour

\* a few hours pass
AdvanceHours(b) ==
  /\ (now % SixtyDays) \div ShortStep < b.hours
  /\ now' = now + ShortStep
  /\ lastCalls' = {}
  /\ lastReposts' = {}
  /\ hist' = NoHist
  /\ UNCHANGED <<posts, detached, autorun, lastPlanRun, config, loops, nextRef, collisions>>

\* the repost cooldown passes
AdvanceDays(b) ==
  /\ now \div SixtyDays < b.days
  /\ now' = now + SixtyDays
  /\ lastCalls' = {}
  /\ lastReposts' = {}
  /\ hist' = NoHist
  /\ UNCHANGED <<posts, detached, autorun, lastPlanRun, config, loops, nextRef, collisions>>

(***************************************************************************)
(* Ingestion and planning                                                  *)
(***************************************************************************)
\* FileWatcher 'add' event: scheduler.queueFile(filename)
WatcherAdd(f, b) ==
  \E r \in RandChoices(posts, detached, now, collisions, b) :
    LET res == QueueFile(posts, f, NoOverrides, now, nextRef, <<now, r>>)
    IN /\ res.created => CanCreate(b)
       /\ ~res.created => r = FreshRand(UsedRands(posts, detached, now))
       /\ posts' = res.posts
       /\ nextRef' = IF res.created THEN nextRef + 1 ELSE nextRef
       /\ collisions' = IF res.created /\ IsCollision(posts, detached, now, r)
                        THEN collisions + 1 ELSE collisions
       /\ lastCalls' = {}
       /\ lastReposts' = {}
       /\ hist' = [NoHist EXCEPT !.queued = {QueueCall(posts, f, res)}]
       /\ UNCHANGED <<detached, autorun, lastPlanRun, config, now, loops>>

\* POST /ig/plan; with no weekday allowed and a post to plan the handler never
\* returns
Plan ==
  /\ IF PlanDiverges(posts, config)
     THEN UNCHANGED <<posts, lastPlanRun, config>>
     ELSE /\ posts' = PlanPosts(posts, config, now)
          /\ lastPlanRun' = now
          /\ config' = IF \E i \in DOMAIN posts : posts[i].status = "QUEUED"
                       THEN ConfigAfterPreview(config) ELSE config
  /\ lastCalls' = {}
  /\ lastReposts' = {}
  /\ hist' = [NoHist EXCEPT !.planned =
                IF \E i \in DOMAIN posts : posts[i].status = "QUEUED"
                THEN {PlanCall(posts, config, now)} ELSE {}]
  /\ UNCHANGED <<detached, autorun, now, loops, nextRef, collisions>>

\* GET /ig/schedule-preview?count=
SchedulePreview(count) ==
  /\ hist' = [NoHist EXCEPT !.preview = {PreviewCall(config, now, count)}]
  /\ config' = IF PreviewDiverges(config) THEN config ELSE ConfigAfterPreview(config)
  /\ lastCalls' = {}
  /\ lastReposts' = {}
  /\ UNCHANGED <<posts, detached, autorun, lastPlanRun, now, loops, nextRef, collisions>>

(***************************************************************************)
(* Publisher steps                                                         *)
(***************************************************************************)
\* setInterval(() => this.publishLoop(), 60_000): one firing, up to its first await
TimerTick(b) ==
  /\ autorun
  /\ GetReadyPosts(posts, now) # <<>>
  /\ BagCardinality(loops) < b.loops
  /\ LET res == PublishLoop(posts, detached, autorun, now)
         ls == Started(loops, res.loop)
     IN /\ posts' = res.posts
        /\ loops' = ls
        /\ lastCalls' = res.calls
        /\ lastReposts' = {}
        /\ hist' = NoHist
        /\ detached' = Collect(detached, ls)
  /\ UNCHANGED <<autorun, lastPlanRun, config, now, nextRef, collisions>>

\* the rest of publishPost once the Instagram protocol has been settled, then the
\* loop's next posts up to the next await
AfterInstagram(me, ps, igOk) ==
     IF FbEnabled(me.platforms)
     THEN /\ posts' = ps
          /\ loops' = Resumed(loops, me, [me EXCEPT !.pc = "fb", !.igOk = igOk])
          /\ lastCalls' = {}
          /\ lastReposts' = {}
          /\ UNCHANGED detached
     ELSE LET res == RunLoop(FinalStatus(ps, me.curId, me.platforms, igOk, FALSE), detached,
                             RestOfTick(me.queue, me.platforms, igOk, FALSE), {CallRecord(me.cur, me.platforms, igOk, FALSE, me.was)})
              ls == Resumed(loops, me, res.loop)
          IN /\ posts' = res.posts
             /\ loops' = ls
             /\ lastCalls' = res.calls
             /\ lastReposts' = {}
             /\ detached' = Collect(detached, ls)

\* igCreateContainer, igWaitFinished and igPublish all resolved
InstagramSucceeds(l) ==
  /\ l.pc = "ig"
  /\ AfterInstagram(l, UpdatePost(posts, l.curId,
                                  [status |-> "PUBLISHED", published_at |-> now]), TRUE)
  /\ hist' = NoHist
  /\ UNCHANGED <<autorun, lastPlanRun, config, now, nextRef, collisions>>

\* one of the three Instagram steps rejected: the inner catch only logs
InstagramFails(l) ==
  /\ l.pc = "ig"
  /\ AfterInstagram(l, posts, FALSE)
  /\ hist' = NoHist
  /\ UNCHANGED <<autorun, lastPlanRun, config, now, nextRef, collisions>>

\* the Instagram branch of publishPost against a remote side that follows script
InstagramRuns(l, script) ==
  /\ l.pc = "ig"
  /\ LET run == IgProtocol(script)
     IN /\ AfterInstagram(l, IF run.ok
                             THEN UpdatePost(posts, l.curId,
                                             [status |-> "PUBLISHED", published_at |-> now])
                             ELSE posts, run.ok)
        /\ hist' = [NoHist EXCEPT !.ig = {IgCall(l, script, run)}]
  /\ UNCHANGED <<autorun, lastPlanRun, config, now, nextRef, collisions>>

\* the Instagram branch of publishPost in a process started with IG_MOCK=true,
\* whatever the remote side would have answered
InstagramMock(l, script) ==
  /\ l.pc = "ig"
  /\ LET run == IgProtocolWith(TRUE, script)
     IN /\ AfterInstagram(l, IF run.ok
                             THEN UpdatePost(posts, l.curId,
                                             [status |-> "PUBLISHED", published_at |-> now])
                             ELSE posts, run.ok)
        /\ hist' = [NoHist EXCEPT !.ig = {IgCall(l, script, run)}]
  /\ UNCHANGED <<autorun, lastPlanRun, config, now, nextRef, collisions>>

\* the Instagram branch of publishPost against a remote side whose fetches fail
InstagramRetries(l, script) ==
  /\ l.pc = "ig"
  /\ LET run == IgProtocolCounted(script)
     IN /\ AfterInstagram(l, IF run.ok
                             THEN UpdatePost(posts, l.curId,
                                             [status |-> "PUBLISHED", published_at |-> now])
                             ELSE posts, run.ok)
        /\ hist' = [NoHist EXCEPT !.ig = {IgCountedCall(l, script, run)}]
  /\ UNCHANGED <<autorun, lastPlanRun, config, now, nextRef, collisions>>

\* the fetch of /fb/publish settled (ok: resp.ok), then the final status handling
FacebookSettles(me, ok) ==
  /\ me.pc = "fb"
  /\ LET res == RunLoop(FinalStatus(posts, me.curId, me.platforms, me.igOk, ok), detached,
                        RestOfTick(me.queue, me.platforms, me.igOk, ok), {CallRecord(me.cur, me.platforms, me.igOk, ok, me.was)})
         ls == Resumed(loops, me, res.loop)
     IN /\ posts' = res.posts
        /\ loops' = ls
        /\ lastCalls' = res.calls
        /\ lastReposts' = {}
        /\ hist' = NoHist
        /\ detached' = Collect(detached, ls)
  /\ UNCHANGED <<autorun, lastPlanRun, config, now, nextRef, collisions>>

(***************************************************************************)
(* Administrative endpoints                                                *)
(***************************************************************************)
NoFile == ""
NoPlatforms == "absent"

\* POST /ig/post-now with body { id } or { filename }, and optional platforms
PostNow(id, filename, pl, b) ==
  \E r \in RandChoices(posts, detached, now, collisions, b) :
    LET found == FirstIdx(posts, {i \in DOMAIN posts :
                     (id # NoId /\ posts[i].id = id) \/
                     (filename # NoFile /\ posts[i].filename = filename)})
        queued == IF found = 0 /\ filename # NoFile
                  THEN QueueFile(posts, filename, NoOverrides, now, nextRef, <<now, r>>)
                  ELSE [posts |-> posts, idx |-> found, created |-> FALSE]
        patch == IF pl # NoPlatforms
                 THEN [status |-> "SCHEDULED", scheduled_at |-> now - PostNowBackdate,
                       platforms |-> pl]
                 ELSE [status |-> "SCHEDULED", scheduled_at |-> now - PostNowBackdate]
        patched == UpdatePost(queued.posts, queued.posts[queued.idx].id, patch)
        kick == PublishLoop(patched, detached, autorun, now)
        ls == Started(loops, kick.loop)
    IN /\ queued.idx # 0
       /\ queued.created => CanCreate(b)
       /\ ~queued.created => r = FreshRand(UsedRands(posts, detached, now))
       /\ kick.loop.pc # "idle" => BagCardinality(loops) < b.loops
       /\ posts' = kick.posts
       /\ loops' = ls
       /\ lastCalls' = kick.calls
       /\ lastReposts' = {}
       /\ hist' = [NoHist EXCEPT
                     !.queued = IF found = 0 /\ filename # NoFile
                                THEN {QueueCall(posts, filename, queued)} ELSE {},
                     !.postNow = {PostNowCall(IF found = 0 THEN "none"
                                              ELSE posts[found].status,
                                              patched[queued.idx], autorun)}]
       /\ detached' = Collect(detached, ls)
       /\ nextRef' = IF queued.created THEN nextRef + 1 ELSE nextRef
       /\ collisions' = IF queued.created /\ IsCollision(posts, detached, now, r)
                        THEN collisions + 1 ELSE collisions
       /\ UNCHANGED <<autorun, lastPlanRun, config, now>>

\* POST /ig/schedule-post
SchedulePost(filename, at, pl, b) ==
  \E r \in RandChoices(posts, detached, now, collisions, b) :
    LET found == FirstIdx(posts, {i \in DOMAIN posts :
                     posts[i].filename = filename /\ posts[i].status = "QUEUED"})
        queued == IF found = 0
                  THEN QueueFile(posts, filename, NoOverrides, now, nextRef, <<now, r>>)
                  ELSE [posts |-> posts, idx |-> found, created |-> FALSE]
        patch == IF pl # NoPlatforms
                 THEN [scheduled_at |-> at, status |-> "SCHEDULED", platforms |-> pl]
                 ELSE [scheduled_at |-> at, status |-> "SCHEDULED"]
    IN /\ queued.created => CanCreate(b)
       /\ ~queued.created => r = FreshRand(UsedRands(posts, detached, now))
       /\ posts' = UpdatePost(queued.posts, queued.posts[queued.idx].id, patch)
       /\ nextRef' = IF queued.created THEN nextRef + 1 ELSE nextRef
       /\ collisions' = IF queued.created /\ IsCollision(posts, detached, now, r)
                        THEN collisions + 1 ELSE collisions
       /\ lastCalls' = {}
       /\ lastReposts' = {}
       /\ hist' = [NoHist EXCEPT !.queued =
                     IF found = 0 THEN {QueueCall(posts, filename, queued)} ELSE {}]
       /\ UNCHANGED <<detached, autorun, lastPlanRun, config, now, loops>>

\* PUT /ig/posts/:id/reschedule
Reschedule(id, at) ==
  /\ FindById(posts, id) # 0
  /\ posts[FindById(posts, id)].status = "SCHEDULED"
  /\ posts' = UpdatePost(posts, id, [scheduled_at |-> at])
  /\ lastCalls' = {}
  /\ lastReposts' = {}
  /\ hist' = NoHist
  /\ UNCHANGED <<detached, autorun, lastPlanRun, config, now, loops, nextRef, collisions>>

\* new Date(scheduled_at) of a string that is no date: getTime() is NaN
InvalidDate == -2

\* an id no post has
UnknownId == <<0, 0>>

\* the entries of a reschedule body: null, or an object whose id may be empty or
\* unknown and whose scheduled_at may be missing (NoTime) or no date
RescheduleDates == {2 * OneHour, NoTime, InvalidDate}
RescheduleEntries ==
  {[null |-> TRUE, id |-> NoId, at |-> NoTime]}
    \cup [null : {FALSE}, id : Ids \cup {NoId, UnknownId}, at : RescheduleDates]

\* the tests of both reschedule handlers on one entry, in their order
RescheduleRejects(ps, e) ==
  \/ e.id = NoId
  \/ e.at = NoTime
  \/ e.at = InvalidDate
  \/ FindById(ps, e.id) = 0
  \/ ps[FindById(ps, e.id)].status # "SCHEDULED"

\* const { id, scheduled_at } = update throws a TypeError when update is null; the
\* catch around the whole loop answers 500
DestructuringThrows(e) == e.null

\* the for loop of PUT /ig/posts/batch-reschedule from its k-th entry on
RECURSIVE BatchLoop(_, _, _)
BatchLoop(ps, updates, k) ==
  IF k > Len(updates) THEN ps
  ELSE IF DestructuringThrows(updates[k]) THEN ps
  ELSE IF RescheduleRejects(ps, updates[k])
  THEN BatchLoop(ps, updates, k + 1)
  ELSE BatchLoop(UpdatePost(ps, updates[k].id, [scheduled_at |-> updates[k].at]),
                 updates, k + 1)

\* what one reschedule request was given and the store it found
RescheduleCall(kind, ps, updates) == [kind |-> kind, before |-> ps, updates |-> updates]

\* PUT /ig/posts/:id/reschedule, rejections included
RescheduleOne(id, at) ==
  LET e == [null |-> FALSE, id |-> id, at |-> at]
  IN /\ posts' = IF RescheduleRejects(posts, e) THEN posts
                 ELSE UpdatePost(posts, id, [scheduled_at |-> at])
     /\ lastCalls' = {}
     /\ lastReposts' = {}
     /\ hist' = [NoHist EXCEPT !.reschedule = {RescheduleCall("single", posts, <<e>>)}]
     /\ UNCHANGED <<detached, autorun, lastPlanRun, config, now, loops, nextRef,
                    collisions>>

\* PUT /ig/posts/batch-reschedule with an array of updates
BatchReschedule(updates) ==
  /\ posts' = BatchLoop(posts, updates, 1)
  /\ lastCalls' = {}
  /\ lastReposts' = {}
  /\ hist' = [NoHist EXCEPT !.reschedule = {RescheduleCall("batch", posts, updates)}]
  /\ UNCHANGED <<detached, autorun, lastPlanRun, config, now, loops, nextRef, collisions>>

\* DELETE /ig/posts/:id
DeletePost(id) ==
  /\ FindById(posts, id) # 0
  /\ posts[FindById(posts, id)].status \in {"QUEUED", "SCHEDULED", "ERROR"}
  /\ posts' = RemovePost(posts, id)
  /\ detached' = Collect(detached \cup {posts[FindById(posts, id)]}, loops)
  /\ lastCalls' = {}
  /\ lastReposts' = {}
  /\ hist' = NoHist
  /\ UNCHANGED <<autorun, lastPlanRun, config, now, loops, nextRef, collisions>>

\* postsToRemove.forEach(post => scheduler.removePost(post.id))
RECURSIVE RemoveAll(_, _)
RemoveAll(ps, ids) ==
  IF ids = <<>> THEN ps ELSE RemoveAll(RemovePost(ps, Head(ids)), Tail(ids))

\* DELETE /ig/media/:filename, the file being present in the inbox
DeleteMedia(filename) ==
  LET doomed == FilterIdx(posts, {i \in DOMAIN posts :
                    posts[i].filename = filename /\ posts[i].status = "SCHEDULED"}, 1)
      after == RemoveAll(posts, [k \in DOMAIN doomed |-> posts[doomed[k]].id])
  IN /\ doomed # <<>>
     /\ posts' = after
     /\ detached' = Collect(detached \cup (Range(posts) \ Range(after)), loops)
     /\ lastCalls' = {}
     /\ lastReposts' = {}
     /\ hist' = NoHist
     /\ UNCHANGED <<autorun, lastPlanRun, config, now, loops, nextRef, collisions>>

\* POST /ig/repost/:id, answered with the new post
ManualRepost(id, b) ==
  \E r \in RandChoices(posts, detached, now, collisions, b) :
    LET res == ScheduleRepostFromId(posts, id, "manual", now, nextRef, <<now, r>>)
    IN /\ res.created
       /\ CanCreate(b)
       /\ posts' = PlanPosts(res.posts, config, now)
       /\ lastPlanRun' = now
       /\ nextRef' = nextRef + 1
       /\ collisions' = IF IsCollision(posts, detached, now, r)
                        THEN collisions + 1 ELSE collisions
       /\ lastCalls' = {}
       /\ lastReposts' = {RepostCall(posts, id, "manual", res)}
       /\ hist' = NoHist
       /\ UNCHANGED <<detached, autorun, config, now, loops>>

\* POST /ig/repost/:id answered 400: scheduleRepostFromId returned null
ManualRepostRefused(id) ==
  LET res == ScheduleRepostFromId(posts, id, "manual", now, nextRef,
                                  <<now, FreshRand(UsedRands(posts, detached, now))>>)
  IN /\ ~res.created
     /\ lastCalls' = {}
     /\ lastReposts' = {RepostCall(posts, id, "manual", res)}
     /\ hist' = NoHist
     /\ UNCHANGED <<posts, detached, autorun, lastPlanRun, config, now, loops, nextRef,
                    collisions>>

\* setInterval(() => scheduler.autoRepostTick(), 60 * 60 * 1000): one firing
AutoRepostTick(b) ==
  /\ IF ~config.autoRepostEnabled
     THEN /\ lastReposts' = {}
          /\ hist' = [NoHist EXCEPT !.autoTick = {AutoTickCall(FALSE, posts, lastPlanRun, 0)}]
          /\ UNCHANGED <<posts, lastPlanRun, nextRef, collisions>>
     ELSE LET originals == FilterIdx(posts, {i \in DOMAIN posts :
                               ~posts[i].is_repost /\ posts[i].status = "PUBLISHED"}, 1)
              roots == [k \in DOMAIN originals |-> posts[originals[k]].id]
          IN \E rs \in [DOMAIN originals -> 0..b.posts] :
               LET res == AutoRepostAll(posts, detached, roots, 1, rs, now, nextRef,
                                        collisions, b, {})
                   hasNewQueued == \E i \in DOMAIN res.posts : res.posts[i].status = "QUEUED"
               IN /\ res.valid
                  /\ posts' = IF hasNewQueued THEN PlanPosts(res.posts, config, now)
                              ELSE res.posts
                  /\ lastPlanRun' = IF hasNewQueued THEN now ELSE lastPlanRun
                  /\ nextRef' = res.nextRef
                  /\ collisions' = res.collisions
                  /\ lastReposts' = res.calls
                  /\ hist' = [NoHist EXCEPT !.autoTick =
                               {AutoTickCall(TRUE, posts, lastPlanRun,
                                             Len(res.posts) - Len(posts))}]
  /\ lastCalls' = {}
  /\ UNCHANGED <<detached, autorun, config, now, loops>>

(***************************************************************************)
(* Specifications                                                          *)
(***************************************************************************)
PlatformInputs == {NoPlatforms, "ig+fb", "fb", "none"}
ScheduleInputs == {0, 2 * OneHour}

Publishing ==
  \/ TimerTick(Bounds)
  \/ \E l \in Loops : InstagramSucceeds(l)
  \/ \E l \in Loops : InstagramFails(l)
  \/ \E l \in Loops, ok \in BOOLEAN : FacebookSettles(l, ok)

\* the publish orchestration with its administrative triggers
Init == InitWith(Bounds)

Next ==
  \/ \E f \in Files : WatcherAdd(f, Bounds)
  \/ Plan
  \/ \E e \in BOOLEAN : SetAutorun(e)
  \/ Publishing
  \/ \E id \in Ids, pl \in PlatformInputs : PostNow(id, NoFile, pl, Bounds)
  \/ \E f \in Files, pl \in PlatformInputs : PostNow(NoId, f, pl, Bounds)
  \/ \E f \in Files, at \in ScheduleInputs, pl \in PlatformInputs : SchedulePost(f, at, pl, Bounds)
  \/ \E id \in Ids, at \in ScheduleInputs : Reschedule(id, at)
  \/ \E id \in Ids : DeletePost(id)
  \/ \E f \in Files : DeleteMedia(f)

Spec == Init /\ [][Next]_vars

\* ticks and kicks over a store in which several posts can be due together
TickBounds == [Bounds EXCEPT !.posts = MaxReadyPosts, !.created = MaxReadyPosts]

NextTicks ==
  \/ \E e \in BOOLEAN : SetAutorun(e)
  \/ AdvanceHours(TickBounds)
  \/ TimerTick(TickBounds)
  \/ \E l \in Loops : InstagramSucceeds(l)
  \/ \E l \in Loops : InstagramFails(l)
  \/ \E f \in TwoFiles, at \in ScheduleInputs : SchedulePost(f, at, NoPlatforms, TickBounds)
  \/ \E id \in Ids, at \in ScheduleInputs : Reschedule(id, at)

SpecTicks == InitWith(TickBounds) /\ [][NextTicks]_vars

RepostIds == {posts[i].id : i \in {j \in DOMAIN posts : posts[j].is_repost}}

\* the repost engine over one original and its repost children
RepostBounds ==
  [Bounds EXCEPT !.posts = MaxRepostPosts, !.created = MaxRepostCreated,
                 !.loops = MaxRepostLoops, !.hours = 0, !.days = MaxDaySteps]

NextRepost ==
  \/ \E f \in Files : WatcherAdd(f, RepostBounds)
  \/ Plan
  \/ SetAutorun(TRUE)
  \/ \E u \in ConfigUpdates : SetConfig(u)
  \/ AdvanceDays(RepostBounds)
  \/ TimerTick(RepostBounds)
  \/ \E l \in Loops : InstagramSucceeds(l)
  \/ \E id \in Ids : ManualRepost(id, RepostBounds)
  \/ AutoRepostTick(RepostBounds)
  \/ \E id \in RepostIds : DeletePost(id)

SpecRepost == InitWith(RepostBounds) /\ [][NextRepost]_vars

\* manual repost requests, granted and refused, over one original
ManualBounds ==
  [Bounds EXCEPT !.posts = MaxManualPosts, !.created = MaxManualPosts,
                 !.loops = MaxRepostLoops, !.hours = 0, !.days = MaxDaySteps]

NextManual ==
  \/ \E f \in Files : WatcherAdd(f, ManualBounds)
  \/ Plan
  \/ SetAutorun(TRUE)
  \/ AdvanceDays(ManualBounds)
  \/ TimerTick(ManualBounds)
  \/ \E l \in Loops : InstagramSucceeds(l)
  \/ \E l \in Loops : InstagramFails(l)
  \/ \E id \in Ids : ManualRepost(id, ManualBounds)
  \/ \E id \in Ids : ManualRepostRefused(id)

SpecManual == InitWith(ManualBounds) /\ [][NextManual]_vars

\* a chain whose reposts are published again on request
ChainBounds ==
  [Bounds EXCEPT !.posts = MaxChainPosts, !.created = MaxChainPosts,
                 !.loops = MaxRepostLoops, !.hours = 0, !.days = MaxDaySteps]

NextChain ==
  \/ \E f \in Files : SchedulePost(f, 0, NoPlatforms, ChainBounds)
  \/ SetAutorun(TRUE)
  \/ SetConfig([autoRepostEnabled |-> TRUE])
  \/ AdvanceDays(ChainBounds)
  \/ TimerTick(ChainBounds)
  \/ \E l \in Loops : InstagramSucceeds(l)
  \/ \E l \in Loops : InstagramFails(l)
  \/ \E id \in RepostIds : PostNow(id, NoFile, NoPlatforms, ChainBounds)
  \/ AutoRepostTick(ChainBounds)

SpecChain == InitWith(ChainBounds) /\ [][NextChain]_vars

\* two files whose posts can be given the same id
IdBounds ==
  [Bounds EXCEPT !.posts = MaxIdPosts, !.created = MaxIdPosts,
                 !.loops = MaxRepostLoops, !.hours = 0,
                 !.collisions = MaxIdCollisions, !.files = TwoFiles]

NextIds ==
  \/ \E f \in TwoFiles : WatcherAdd(f, IdBounds)
  \/ Plan
  \/ SetAutorun(TRUE)
  \/ TimerTick(IdBounds)
  \/ \E l \in Loops : InstagramSucceeds(l)
  \/ \E l \in Loops : InstagramFails(l)
  \/ \E id \in Ids : DeletePost(id)
  \/ \E f \in TwoFiles : DeleteMedia(f)

SpecIds == InitWith(IdBounds) /\ [][NextIds]_vars

\* bodies of POST /ig/schedule-config, well-formed or not
ConfigInputs ==
  {[mode |-> m] : m \in {"interval", "times", "hourly"}} \cup
  {[intervalHours |-> h] : h \in {-30, 0, 5, 10, 25, 300}} \cup
  {[days |-> d] : d \in {{}, {5}, 1..5, 0..6, -1..7}} \cup
  {[times |-> t] : t \in {<<>>, <<900>>, <<1700, 900>>, <<900, 900>>, <<-1, 2130>>,
                          <<1700, 900, 1700>>}} \cup
  {[autoRepostEnabled |-> e] : e \in BOOLEAN}

NextConfig == \E u \in ConfigInputs : SetConfig(u)

SpecConfig == InitWith(Bounds) /\ [][NextConfig]_vars

\* one publishLoop at a time over two ready posts, with every kind of failure
FailureBounds == [TickBounds EXCEPT !.loops = MaxRepostLoops]

FailurePlatforms == {NoPlatforms, "ig+fb", "none"}

NextFailures ==
  \/ SetAutorun(TRUE)
  \/ \E f \in TwoFiles, pl \in FailurePlatforms : SchedulePost(f, 0, pl, FailureBounds)
  \/ TimerTick(FailureBounds)
  \/ \E l \in Loops : InstagramSucceeds(l)
  \/ \E l \in Loops : InstagramFails(l)
  \/ \E l \in Loops, ok \in BOOLEAN : FacebookSettles(l, ok)

SpecFailures == InitWith(FailureBounds) /\ [][NextFailures]_vars

\* a process in mock mode; the awaits of a publishLoop in flight always settle
MockBounds == [Bounds EXCEPT !.posts = MaxMockPosts, !.created = MaxMockPosts]

MockPlatforms == {NoPlatforms, "ig+fb", "fb"}

MockScripts == {s \in Scripts : s.notReady = 0}

NextMock ==
  \/ \E e \in BOOLEAN : SetAutorun(e)
  \/ \E f \in Files, at \in ScheduleInputs, pl \in MockPlatforms :
       SchedulePost(f, at, pl, MockBounds)
  \/ \E id \in Ids, pl \in MockPlatforms : PostNow(id, NoFile, pl, MockBounds)
  \/ TimerTick(MockBounds)
  \/ \E l \in Loops, script \in MockScripts : InstagramMock(l, script)
  \/ \E l \in Loops, ok \in BOOLEAN : FacebookSettles(l, ok)

SpecMock ==
  /\ InitWith(MockBounds)
  /\ [][NextMock]_vars
  /\ WF_vars(\E l \in Loops, script \in MockScripts : InstagramMock(l, script))
  /\ WF_vars(\E l \in Loops, ok \in BOOLEAN : FacebookSettles(l, ok))

\* ticks over two due posts while posts are deleted
NextDeletes ==
  \/ SetAutorun(TRUE)
  \/ \E f \in TwoFiles, pl \in MockPlatforms : SchedulePost(f, 0, pl, FailureBounds)
  \/ TimerTick(FailureBounds)
  \/ \E l \in Loops : InstagramSucceeds(l)
  \/ \E l \in Loops : InstagramFails(l)
  \/ \E l \in Loops, ok \in BOOLEAN : FacebookSettles(l, ok)
  \/ \E id \in Ids : DeletePost(id)

SpecDeletes == InitWith(FailureBounds) /\ [][NextDeletes]_vars

\* ticks over two due posts while posts are deleted or moved into the future
NextStale ==
  \/ SetAutorun(TRUE)
  \/ \E f \in TwoFiles, pl \in MockPlatforms : SchedulePost(f, 0, pl, FailureBounds)
  \/ TimerTick(FailureBounds)
  \/ \E l \in Loops : InstagramSucceeds(l)
  \/ \E l \in Loops : InstagramFails(l)
  \/ \E l \in Loops, ok \in BOOLEAN : FacebookSettles(l, ok)
  \/ \E id \in Ids : DeletePost(id)
  \/ \E id \in Ids : RescheduleOne(id, 2 * OneHour)

SpecStale == InitWith(FailureBounds) /\ [][NextStale]_vars

\* autorun stays on once it is on, the interval timer keeps firing, and every
\* remote call a tick awaits succeeds in the end
LiveBounds ==
  [TickBounds EXCEPT !.loops = MaxReadyPosts, !.collisions = MaxIdCollisions]

NextLive ==
  \/ SetAutorun(TRUE)
  \/ \E f \in TwoFiles : WatcherAdd(f, LiveBounds)
  \/ Plan
  \/ TimerTick(LiveBounds)
  \/ \E l \in Loops : InstagramSucceeds(l)
  \/ \E id \in Ids : DeletePost(id)
  \/ \E i \in DOMAIN posts :
       posts[i].status = "SCHEDULED" /\ RescheduleOne(posts[i].id, 6 * OneHour)

SpecLive ==
  /\ InitWith(LiveBounds)
  /\ [][NextLive]_vars
  /\ WF_vars(TimerTick(LiveBounds))
  /\ WF_vars(\E l \in Loops : InstagramSucceeds(l))

\* a handler that never returns blocks the event loop: nothing runs after it
Hung ==
  \/ \E c \in hist.planned : c.diverged
  \/ \E c \in hist.preview : c.diverged

\* bodies of POST /ig/schedule-config
PreviewConfigUpdates ==
  { [mode |-> "times"], [mode |-> "interval"],
    [days |-> {}], [days |-> {5}], [days |-> 1..5], [days |-> 0..7],
    [intervalHours |-> 300], [intervalHours |-> 0],
    [times |-> <<1700, 900>>], [times |-> <<900, 900>>], [times |-> <<>>] }

PreviewBounds ==
  [Bounds EXCEPT !.posts = MaxPlannedPosts, !.created = MaxPlannedPosts,
                 !.hours = MaxPreviewHourSteps]

\* planning and preview under the schedule configurations
NextPreview ==
  \/ ~Hung /\ \E f \in TwoFiles : WatcherAdd(f, PreviewBounds)
  \/ ~Hung /\ Plan
  \/ ~Hung /\ \E u \in PreviewConfigUpdates : SetConfig(u)
  \/ ~Hung /\ \E count \in 1..MaxPreviewCount : SchedulePreview(count)
  \/ ~Hung /\ AdvanceHours(PreviewBounds)

SpecPreview == InitWith(PreviewBounds) /\ [][NextPreview]_vars

\* the repost engine over posts whose ids can coincide
CountBounds ==
  [RepostBounds EXCEPT !.posts = MaxChainPosts, !.created = MaxChainPosts,
                       !.collisions = MaxIdCollisions, !.days = 0]

NextCounts ==
  \/ \E f \in Files : WatcherAdd(f, CountBounds)
  \/ Plan
  \/ SetAutorun(TRUE)
  \/ TimerTick(CountBounds)
  \/ \E l \in Loops : InstagramSucceeds(l)
  \/ \E id \in Ids : ManualRepost(id, CountBounds)
  \/ \E id \in RepostIds : DeletePost(id)

SpecCounts == InitWith(CountBounds) /\ [][NextCounts]_vars

\* reschedule requests, good and bad, over two posts that are QUEUED or SCHEDULED
NextReschedule ==
  \/ \E f \in TwoFiles : WatcherAdd(f, FailureBounds)
  \/ Plan
  \/ \E e \in RescheduleEntries : ~e.null /\ RescheduleOne(e.id, e.at)
  \/ \E e1, e2 \in RescheduleEntries : BatchReschedule(<<e1, e2>>)

SpecReschedule == InitWith(FailureBounds) /\ [][NextReschedule]_vars

\* an original and its repost under post-now and delete requests
OrphanBounds ==
  [Bounds EXCEPT !.posts = MaxIdPosts, !.created = MaxIdPosts, !.loops = MaxRepostLoops,
                 !.hours = 0]

NextOrphans ==
  \/ \E f \in Files : WatcherAdd(f, OrphanBounds)
  \/ Plan
  \/ \E e \in BOOLEAN : SetAutorun(e)
  \/ TimerTick(OrphanBounds)
  \/ \E l \in Loops : InstagramSucceeds(l)
  \/ \E id \in Ids : ManualRepost(id, OrphanBounds)
  \/ \E id \in Ids : PostNow(id, NoFile, NoPlatforms, OrphanBounds)
  \/ \E id \in Ids : DeletePost(id)

SpecOrphans == InitWith(OrphanBounds) /\ [][NextOrphans]_vars

\* one post published against every remote script
ProtocolPlatforms == {NoPlatforms, "ig", "ig+fb"}

NextProtocol ==
  \/ \E e \in BOOLEAN : SetAutorun(e)
  \/ \E f \in Files, pl \in ProtocolPlatforms : SchedulePost(f, 0, pl, Bounds)
  \/ \E id \in Ids, pl \in ProtocolPlatforms : PostNow(id, NoFile, pl, Bounds)
  \/ TimerTick(Bounds)
  \/ \E l \in Loops, script \in Scripts : InstagramRuns(l, script)
  \/ \E l \in Loops, ok \in BOOLEAN : FacebookSettles(l, ok)
  \/ \E id \in Ids : DeletePost(id)

SpecProtocol == InitWith(Bounds) /\ [][NextProtocol]_vars

\* one post published against a remote side whose requests fail in transit
NextRetries ==
  \/ SetAutorun(TRUE)
  \/ \E f \in Files, pl \in ProtocolPlatforms : SchedulePost(f, 0, pl, Bounds)
  \/ TimerTick(Bounds)
  \/ \E l \in Loops, script \in RetryScripts : InstagramRetries(l, script)
  \/ \E l \in Loops, ok \in BOOLEAN : FacebookSettles(l, ok)

SpecRetries == InitWith(Bounds) /\ [][NextRetries]_vars

(***************************************************************************)
(* Properties of the publish orchestration                                 *)
(***************************************************************************)
Backward(from, to) ==
  \/ from \in {"PUBLISHING", "PUBLISHED", "ERROR"} /\ to \in {"QUEUED", "SCHEDULED"}
  \/ from \in {"PUBLISHED", "ERROR"} /\ to = "PUBLISHING"

\* C1: no step moves the status of a post backward in the order
\* QUEUED -> SCHEDULED -> PUBLISHING -> {PUBLISHED, ERROR}
C1_StatusNeverBackward ==
  [][\A i \in DOMAIN posts : \A j \in DOMAIN posts' :
       posts'[j].ref = posts[i].ref => ~Backward(posts[i].status, posts'[j].status)]_vars

\* C2: when publishPost returns, the post it processed is PUBLISHED or ERROR
C2_CallEndsTerminal ==
  \A c \in lastCalls : \A i \in DOMAIN posts :
    posts[i].ref = c.ref => posts[i].status \in {"PUBLISHED", "ERROR"}

\* C3: a call for a post targeting Instagram and Facebook in which exactly one of
\* the two succeeded leaves the post PUBLISHED with published_at recorded
C3_OneOfTwoPublishes ==
  \A c \in lastCalls :
    (c.platforms = "ig+fb" /\ c.igOk # c.fbOk) =>
      \A i \in DOMAIN posts :
        posts[i].ref = c.ref =>
          posts[i].status = "PUBLISHED" /\ posts[i].published_at # NoTime

\* C4: a publishPost call that set its post to ERROR had no platform succeed
C4_ErrorOnlyIfAllFailed ==
  \A c \in lastCalls : c.setError => ~c.igOk /\ ~c.fbOk

\* a call for a post with both platforms enabled, both failed, set ERROR
C4_Witness ==
  \E c \in lastCalls :
    /\ c.platforms = "ig+fb" /\ c.setError
    /\ \E i \in DOMAIN posts : posts[i].ref = c.ref /\ posts[i].status = "ERROR"

\* C5: a publishPost call only ever takes a post that no other call has taken: the
\* post is SCHEDULED when the call sets it to PUBLISHING
C5_PostTakenOnce ==
  /\ \A l \in Loops : l.was \notin {"PUBLISHING", "PUBLISHED", "ERROR"}
  /\ \A c \in lastCalls : c.was \notin {"PUBLISHING", "PUBLISHED", "ERROR"}

IsAscending(ps, idxs) ==
  \A k, m \in DOMAIN idxs : k < m => ps[idxs[k]].scheduled_at <= ps[idxs[m]].scheduled_at

\* C10: getReadyPosts returns exactly the SCHEDULED posts that are due, ordered by
\* scheduled_at ascending
C10_ReadySortedAndExact ==
  LET ready == GetReadyPosts(posts, now)
  IN /\ Range(ready) = {i \in DOMAIN posts :
                          posts[i].status = "SCHEDULED" /\ posts[i].scheduled_at <= now}
     /\ IsAscending(posts, ready)

\* C6: published_at is set exactly on PUBLISHED posts, error_message exactly on
\* ERROR posts
C6_FieldsMatchStatus ==
  \A i \in DOMAIN posts :
    /\ posts[i].published_at # NoTime <=> posts[i].status = "PUBLISHED"
    /\ posts[i].error_message # NoMessage <=> posts[i].status = "ERROR"

(***************************************************************************)
(* Properties of the repost engine                                         *)
(***************************************************************************)
\* C7: the repost_count of an original post is at most 3
C7_RepostCountAtMostThree ==
  \A i \in DOMAIN posts : ~posts[i].is_repost => posts[i].repost_count <= RepostLimit

\* C8: an original post has at most one repost child that is QUEUED, SCHEDULED or
\* PUBLISHING
C8_OnePendingChild ==
  \A i \in DOMAIN posts :
    ~posts[i].is_repost => Cardinality(PendingChildren(posts, posts[i].id)) <= 1

\* C9: a scheduleRepostFromId call with reason auto for a root that has a repost
\* child QUEUED, SCHEDULED or PUBLISHING creates nothing and leaves the store as it was
C9_AutoSkipsPendingRoot ==
  \A c \in lastReposts :
    (c.reason = "auto" /\ c.pending > 0) => ~c.created /\ ~c.changed

\* an auto call was refused for a root that passes every other test: it is
\* PUBLISHED, below the limit and past the cooldown, and has a pending child
C9_Witness ==
  \E c \in lastReposts :
    /\ c.reason = "auto" /\ c.pending > 0 /\ ~c.created
    /\ \E i \in DOMAIN posts :
         /\ posts[i].id = c.root /\ posts[i].status = "PUBLISHED"
         /\ PendingChildren(posts, c.root) # {}
         /\ ~LimitBlocks(GetRepostStats(posts, c.root))
         /\ ~CooldownBlocks(GetRepostStats(posts, c.root), posts[i], "auto", now)

(***************************************************************************)
(* Properties of the scheduler operations                                  *)
(***************************************************************************)
\* C11: a queueFile call for a filename that has a QUEUED or SCHEDULED post returns
\* one of those posts, creates no post and leaves the store as it was
C11_QueueFileIdempotent ==
  \A c \in hist.queued :
    c.matches # {} => ~c.created /\ ~c.changed /\ c.returned \in c.matches

\* queueFile was called for the filename of a post that is SCHEDULED
C11_Witness ==
  \E c \in hist.queued :
    \E i \in c.matches : posts[i].filename = c.filename /\ posts[i].status = "SCHEDULED"

\* C12: a planPosts call returns, leaves no post QUEUED, gives the posts that were
\* QUEUED, oldest first, the timestamps of preview pairwise, and so never gives an
\* earlier-created post a later time than a later-created one
C12_PlanFifo ==
  \A c \in hist.planned :
    /\ ~c.diverged
    /\ \A i \in DOMAIN posts : posts[i].status # "QUEUED"
    /\ \A k \in DOMAIN c.queued : \A i \in DOMAIN posts :
         posts[i].ref = c.queued[k] =>
           posts[i].status = "SCHEDULED" /\ posts[i].scheduled_at = c.times[k]
    /\ \A i, j \in DOMAIN posts :
         (posts[i].ref \in Range(c.queued) /\ posts[j].ref \in Range(c.queued)
            /\ posts[i].created_at <= posts[j].created_at /\ i < j)
           => posts[i].scheduled_at <= posts[j].scheduled_at

\* C13: a preview call returns exactly count timestamps, each at or after from
\* and each on an allowed weekday
C13_PreviewExact ==
  \A c \in hist.preview :
    /\ ~c.diverged
    /\ Len(c.out) = c.count
    /\ \A k \in DOMAIN c.out : c.out[k] >= c.from /\ Weekday(c.out[k]) \in c.days


(***************************************************************************)
(* Properties of the publisher's scheduling and of the remote protocol     *)
(***************************************************************************)
\* C14: no post moves from SCHEDULED to PUBLISHING in a state where the autorun
\* flag is disabled, whether the publish is started by a periodic tick, by a kick
\* or by a tick that was already in progress when autorun was switched off.
C14_NoPublishWhileAutorunOff ==
  [][\A i \in DOMAIN posts : \A j \in DOMAIN posts' :
       (/\ posts'[j].ref = posts[i].ref
        /\ posts[i].status = "SCHEDULED"
        /\ posts'[j].status = "PUBLISHING") => autorun]_vars


\* C15: when a poll of igWaitFinished is answered with the terminal-error status,
\* the Instagram attempt aborts at once: that poll is the last one, igPublish is
\* not called, and a post whose only platform is Instagram becomes ERROR.
C15_TerminalErrorAborts ==
  \A c \in hist.ig :
    (c.script.create /\ c.script.after = "ERROR" /\ c.script.notReady <= WaitRetries) =>
      /\ c.polls = c.script.notReady + 1
      /\ c.aborted /\ ~c.finalized /\ ~c.ok
      /\ (~FbEnabled(c.platforms) /\ FindById(posts, c.id) # 0) =>
           StatusOf(posts, c.id) = "ERROR"

C15_Witness ==
  \E c \in hist.ig :
    /\ c.script.create /\ c.script.after = "ERROR" /\ c.script.notReady = 1
    /\ c.polls = 2 /\ c.polls <= WaitRetries
    /\ ~FbEnabled(c.platforms)
    /\ StatusOf(posts, c.id) = "ERROR"

\* C16: if igWaitFinished is answered 'not ready' k times with k below the retry
\* bound and then FINISHED, and the create and publish requests succeed, the post
\* becomes PUBLISHED.
C16_TransientThenPublished ==
  \A c \in hist.ig :
    (/\ c.script.create /\ c.script.publish /\ c.script.after = "FINISHED"
     /\ c.script.notReady < WaitRetries) =>
      /\ c.ok /\ c.finalized /\ c.polls = c.script.notReady + 1
      /\ FindById(posts, c.id) # 0 =>
           /\ StatusOf(posts, c.id) = "PUBLISHED"
           /\ posts[FindById(posts, c.id)].published_at = now

C16_Witness ==
  \E c \in hist.ig :
    /\ c.script.create /\ c.script.publish /\ c.script.after = "FINISHED"
    /\ c.script.notReady = WaitRetries - 1
    /\ c.polls = WaitRetries
    /\ StatusOf(posts, c.id) = "PUBLISHED"


\* C17: once a post is in ERROR, no automatic operation changes its status or
\* starts the remote protocol for it again.  Stated for the steps of SpecTicks,
\* none of which is a post-now or delete call and whose schedule calls touch
\* QUEUED, SCHEDULED or new posts only: a post in ERROR stays in ERROR.
C17_ErrorIsFinalForAutomation ==
  [][\A i \in DOMAIN posts : \A j \in DOMAIN posts' :
       (posts'[j].ref = posts[i].ref /\ posts[i].status = "ERROR") =>
         posts'[j].status = "ERROR"]_vars


(***************************************************************************)
(* Properties of the repost rules                                          *)
(***************************************************************************)
\* C18: a scheduleRepostFromId call with reason manual creates a repost only if
\* the root of the requested post is PUBLISHED, returns null and changes nothing
\* for a root in any other status, and is not held back by the 60-day cooldown.
C18_ManualNeedsPublishedRoot ==
  \A c \in lastReposts :
    c.reason = "manual" =>
      /\ c.created => c.rootStatus = "PUBLISHED"
      /\ c.rootStatus # "PUBLISHED" => ~c.created /\ ~c.changed
      /\ (c.rootStatus = "PUBLISHED" /\ c.count \in 0..(RepostLimit - 1)) => c.created

\* a manual repost was created inside the 60 days after the chain's last publish
C18_Witness ==
  \E c \in lastReposts :
    /\ c.reason = "manual" /\ c.created /\ c.rootStatus = "PUBLISHED"
    /\ c.lastEvent # NoTime /\ now - c.lastEvent < SixtyDays


\* C19: a scheduleRepostFromId call with reason auto creates a repost only when at
\* least 60 days have passed since the latest publish of the root or of any of its
\* repost children; the repost it creates is a child of the root and raises the
\* root's repost_count by one.
C19_AutoAfterSixtyDays ==
  \A c \in lastReposts :
    (c.reason = "auto" /\ c.created) =>
      /\ c.lastEvent # NoTime => now - c.lastEvent >= SixtyDays
      /\ \E i \in DOMAIN posts : posts[i].is_repost /\ posts[i].original_post_id = c.root
      /\ \E i \in DOMAIN posts :
           /\ posts[i].id = c.root
           /\ posts[i].repost_count = (IF c.count = Undef THEN 0 ELSE c.count) + 1


\* C20: a scheduleRepostFromId call with reason manual for a root whose
\* repost_count is 3 returns null and changes nothing, also when some of the
\* root's repost children have been deleted from the store.
C20_ManualRefusedAtLimit ==
  \A c \in lastReposts :
    (c.reason = "manual" /\ c.count = RepostLimit) => ~c.created /\ ~c.changed


(***************************************************************************)
(* Properties of the store                                                 *)
(***************************************************************************)
\* C21: a post leaves the store only while it is QUEUED, SCHEDULED or ERROR; no
\* delete call removes a post that is PUBLISHING or PUBLISHED.  (A refused delete
\* returns before it touches the store: it is a step that changes nothing.)
C21_RemovedOnlyWhenIdle ==
  [][\A i \in DOMAIN posts :
       (\A j \in DOMAIN posts' : posts'[j].ref # posts[i].ref) =>
         posts[i].status \in {"QUEUED", "SCHEDULED", "ERROR"}]_vars


\* C23: no two posts in the store share an id, also when they are created at the
\* same clock reading, and the id of a post never changes.
C23_IdsUniqueAndFixed ==
  [][/\ \A i, j \in DOMAIN posts' : i # j => posts'[i].id # posts'[j].id
     /\ \A i \in DOMAIN posts : \A j \in DOMAIN posts' :
          posts'[j].ref = posts[i].ref => posts'[j].id = posts[i].id]_vars


\* C22: after any sequence of setConfig calls the stored configuration has
\* intervalHours >= 1, times sorted ascending without duplicates, and allowed
\* weekdays within 0..6.
C22_ConfigSanitized ==
  /\ config.intervalHours >= 1
  /\ \A i, j \in DOMAIN config.times : i < j => config.times[i] < config.times[j]
  /\ config.days \subseteq 0..6


PostNowServed(r) ==
  \E c \in hist.postNow :
    c.ref = r /\ c.was = "SCHEDULED" /\ c.autorun /\ IgSelected(c.platforms)

\* C25: in mock mode with autorun enabled, a post-now request on a SCHEDULED post
\* whose Instagram target is enabled leads to that post becoming PUBLISHED.
C25_MockPostNowPublishes ==
  \A r \in 1..MaxMockPosts :
    PostNowServed(r) ~> (\E i \in DOMAIN posts : posts[i].ref = r /\ posts[i].status = "PUBLISHED")

\* the request has been served and its kick awaits the Instagram steps of the post
C25_Witness ==
  \E r \in 1..MaxMockPosts : \E l \in Loops :
    /\ PostNowServed(r)
    /\ l.cur = r /\ l.pc = "ig"
    /\ \E i \in DOMAIN posts : posts[i].ref = r /\ posts[i].status = "PUBLISHING"


(***************************************************************************)
(* Properties of the repost counter                                        *)
(***************************************************************************)
\* the repost children of the post with this id that the step has created
CreatedChildren(rootId) ==
  {k \in DOMAIN posts' : posts'[k].ref >= nextRef /\ IsChildOf(posts'[k], rootId)}

\* C26: the repost_count of an original post is the number of repost children ever
\* created for it: it starts at 0, every step raises it by the number of children
\* the step creates for the post and by nothing else, also when children are
\* deleted; the repost_count of a repost is never set.
C26_CountIsChildrenEverCreated ==
  [][\A j \in DOMAIN posts' :
       IF posts'[j].is_repost THEN posts'[j].repost_count = Undef
       ELSE IF posts'[j].ref >= nextRef THEN posts'[j].repost_count = 0
       ELSE \E i \in DOMAIN posts :
              /\ posts[i].ref = posts'[j].ref
              /\ posts'[j].repost_count =
                   posts[i].repost_count + Cardinality(CreatedChildren(posts'[j].id))]_vars

(***************************************************************************)
(* Properties of preview against its reference definitions                 *)
(***************************************************************************)
\* the instant of the time of day 'HH:MM' on the day that starts at day
InstantAt(day, hhmm) == day + (hhmm \div 100) * OneHour + (hhmm % 100) * 60

\* enough days to hold count instants: every week has an allowed weekday
HorizonDays(count) == 7 * (count + 1)

\* {day d at time t : d on or after from's date, d's weekday allowed, t in times,
\*  instant >= from}
ReferenceInstants(from, days, times, count) ==
  {x \in UNION {{InstantAt(DayStart(from) + d * OneDay, t) : t \in times} :
                  d \in {e \in 0..HorizonDays(count) :
                           Weekday(DayStart(from) + e * OneDay) \in days}} : x >= from}

\* the n smallest elements of a set of instants, in ascending order
RECURSIVE FirstN(_, _)
FirstN(S, n) ==
  IF n = 0 \/ S = {} THEN <<>>
  ELSE LET least == CHOOSE x \in S : \A y \in S : x <= y
       IN <<least>> \o FirstN(S \ {least}, n - 1)

\* C27: in fixed-times mode a preview call returns the first count elements, in
\* chronological order and with no slot skipped, of the set of the instants at the
\* configured times on the allowed days from the date of from on, at or after from
C27_TimesPreviewIsReference ==
  \A c \in hist.preview :
    c.mode = "times" =>
      /\ ~c.diverged
      /\ c.out = FirstN(ReferenceInstants(c.from, c.days, Range(c.times), c.count), c.count)


\* x moved forward by whole days, same time of day, to the first allowed weekday
MovedToAllowedDay(x, days) ==
  x + OneDay * (CHOOSE d \in 0..6 :
                  /\ Weekday(x + d * OneDay) \in days
                  /\ \A e \in 0..(d - 1) : Weekday(x + e * OneDay) \notin days)

\* the first n allowed elements of the chain that starts at c
RECURSIVE ChainAllowed(_, _, _, _)
ChainAllowed(c, n, hours, days) ==
  IF n = 0 THEN <<>>
  ELSE LET next == MovedToAllowedDay(c + hours * OneHour, days)
       IN IF Weekday(c) \in days
          THEN <<c>> \o ChainAllowed(next, n - 1, hours, days)
          ELSE ChainAllowed(next, n, hours, days)

\* C28: in interval mode, with some weekday allowed, a preview call returns the
\* first count allowed elements of the chain c0 = from, c(k+1) = c(k) + intervalHours
\* moved forward by whole days to the first allowed weekday; with all weekdays
\* allowed a planPosts call at T gives the k-th QUEUED post, in store order from
\* k = 0, the timestamp T + k * intervalHours
C28_IntervalPreviewIsChain ==
  /\ \A c \in hist.preview :
       (c.mode = "interval" /\ c.days # {}) =>
         ~c.diverged /\ c.out = ChainAllowed(c.from, c.count, c.hours, c.days)
  /\ \A c \in hist.planned :
       (c.mode = "interval" /\ c.days = 0..6) =>
         \A k \in DOMAIN c.queued : \A i \in DOMAIN posts :
           posts[i].ref = c.queued[k] =>
             posts[i].scheduled_at = c.from + (k - 1) * c.hours * OneHour

\* an interval preview on weekdays only whose chain had to be moved over a weekend
C28_Witness ==
  \E c \in hist.preview :
    /\ c.mode = "interval" /\ c.days = 1..5 /\ c.count = MaxPreviewCount
    /\ \E k \in 1..(c.count - 1) : c.out[k + 1] > c.out[k] + c.hours * OneHour


(***************************************************************************)
(* Properties of the remote calls                                          *)
(***************************************************************************)
\* C29: when publishPost issues its first remote call for a post (the create
\* request, or the Facebook request when Instagram is not selected) the status of
\* the post is PUBLISHING, and no remote call (create, poll, publish, Facebook) is
\* issued for a post whose status is SCHEDULED at that moment
C29_PublishingBeforeRemoteCall ==
  [][/\ \A n \in BagToSet(loops') :
          CopiesIn(n, loops') > CopiesIn(n, loops) =>
            /\ Obj(posts', detached', n.cur).status # "SCHEDULED"
            /\ (n.pc = "ig" \/ ~IgSelected(n.platforms)) =>
                 Obj(posts', detached', n.cur).status = "PUBLISHING"
     /\ \A l \in BagToSet(loops) :
          (l.pc = "ig" /\ CopiesIn(l, loops') < CopiesIn(l, loops)) =>
            Obj(posts, detached, l.cur).status # "SCHEDULED"]_vars


\* the step of the protocol whose retries were used up in a call, "none" if none
ExhaustedStep(script) ==
  IF script.createFails > FetchRetries THEN "create"
  ELSE IF ~script.createId THEN "none"
  ELSE IF script.notReady > WaitRetries THEN "awaitReady"
  ELSE IF script.after = "ERROR" THEN "none"
  ELSE IF script.publishFails > FetchRetries THEN "finalize"
  ELSE "none"

\* C30: the Instagram branch of a publishPost call sends the create request and
\* the publish request at most 1 + 5 times each and polls at most 1 + 20 times;
\* when the retries of a step are used up the step was tried exactly that often,
\* no later step is called, the attempt has failed and a post whose only platform
\* is Instagram is in ERROR
C30_BoundedAttempts ==
  \A c \in hist.ig :
    /\ c.creates <= 1 + FetchRetries
    /\ c.publishes <= 1 + FetchRetries
    /\ c.polls <= 1 + WaitRetries
    /\ ExhaustedStep(c.script) = "create" =>
         c.creates = 1 + FetchRetries /\ c.polls = 0 /\ c.publishes = 0
    /\ ExhaustedStep(c.script) = "awaitReady" =>
         c.polls = 1 + WaitRetries /\ c.publishes = 0
    /\ ExhaustedStep(c.script) = "finalize" => c.publishes = 1 + FetchRetries
    /\ ExhaustedStep(c.script) # "none" =>
         /\ ~c.ok
         /\ (~FbEnabled(c.platforms) /\ FindById(posts, c.id) # 0) =>
              StatusOf(posts, c.id) = "ERROR"

\* a call whose create request was sent six times and failed six times
C30_Witness ==
  \E c \in hist.ig :
    /\ ExhaustedStep(c.script) = "create"
    /\ c.creates = 1 + FetchRetries /\ c.polls = 0 /\ c.publishes = 0
    /\ ~FbEnabled(c.platforms)
    /\ StatusOf(posts, c.id) = "ERROR"


(***************************************************************************)
(* Properties of the recorded failure                                      *)
(***************************************************************************)
\* e.message of the error the Instagram catch block and the Facebook catch block
\* of publishPost receive and log
InstagramFailure == "Instagram publish failed"
FacebookFailure == "Facebook publish failed"

\* the message of the platform that failed last in a publishPost call: Facebook
\* is attempted after Instagram
LastFailure(pl, igOk, fbOk) ==
  IF FbEnabled(pl) /\ ~fbOk THEN FacebookFailure ELSE InstagramFailure

\* C31: when a publishPost call attempted at least one platform and every attempted
\* platform failed, the error_message of the post is the message of the platform
\* that failed last
C31_ErrorMessageIsLastFailure ==
  \A c \in lastCalls : \A i \in DOMAIN posts :
    (/\ posts[i].ref = c.ref
     /\ IgSelected(c.platforms) \/ FbEnabled(c.platforms)
     /\ IgSelected(c.platforms) => ~c.igOk
     /\ FbEnabled(c.platforms) => ~c.fbOk) =>
      /\ posts[i].status = "ERROR"
      /\ posts[i].error_message = LastFailure(c.platforms, c.igOk, c.fbOk)


(***************************************************************************)
(* Frame properties of the repost engine and of planning                   *)
(***************************************************************************)
\* C32: a scheduleRepostFromId call that returns a post has appended exactly one
\* post, a QUEUED repost with the filename of an original post of the store and
\* that original's id as original_post_id (the root of the requested post when the
\* request names a repost), has raised the repost_count of that original by one
\* and has changed no other post; a call that returns null has changed nothing
C32_RepostFrame ==
  \A c \in lastReposts :
    IF c.created
    THEN /\ Len(c.after) = Len(c.before) + 1
         /\ LET new == c.after[Len(c.after)]
                o == FindById(c.before, c.requested)
            IN /\ new.is_repost /\ new.status = "QUEUED"
               /\ c.before[o].is_repost => new.original_post_id = c.before[o].original_post_id
               /\ ~c.before[o].is_repost => new.original_post_id = c.requested
               /\ \E r \in DOMAIN c.before :
                    /\ ~c.before[r].is_repost
                    /\ c.before[r].id = new.original_post_id
                    /\ new.filename = c.before[r].filename
                    /\ c.after[r] = [c.before[r] EXCEPT !.repost_count = @ + 1]
                    /\ \A i \in DOMAIN c.before : i # r => c.after[i] = c.before[i]
    ELSE c.after = c.before

\* a repost has just been created on a request that named a repost child
C32_Witness ==
  \E c \in lastReposts :
    /\ c.created
    /\ c.before[FindById(c.before, c.requested)].is_repost
    /\ c.after[Len(c.after)].original_post_id # c.requested
    /\ \E r \in DOMAIN c.before :
         c.before[r].id = c.root /\ c.after[r].repost_count = c.before[r].repost_count + 1


\* C33: an autoRepostTick call with autoRepostEnabled false changes nothing, and a
\* call that creates no repost leaves every post, QUEUED posts of the watcher
\* included, and the last plan run as they were
C33_AutoTickPlansOnlyItsReposts ==
  \A c \in hist.autoTick :
    (~c.enabled \/ c.created = 0) => posts = c.before /\ lastPlanRun = c.lastPlanRun


(***************************************************************************)
(* Properties of the reschedule requests                                   *)
(***************************************************************************)
\* the store after the entries of a request, from the k-th on, have been served as
\* they should be: a rejected entry is passed over, an accepted one sets the
\* scheduled_at of the post it names
RECURSIVE Rescheduled(_, _, _)
Rescheduled(ps, updates, k) ==
  IF k > Len(updates) THEN ps
  ELSE IF updates[k].null \/ RescheduleRejects(ps, updates[k])
  THEN Rescheduled(ps, updates, k + 1)
  ELSE Rescheduled([ps EXCEPT ![FindById(ps, updates[k].id)].scheduled_at = updates[k].at],
                   updates, k + 1)

\* C34: after a reschedule request, single or batch, the store is the store before
\* it with the scheduled_at of every post named by an accepted entry set to that
\* entry's date and nothing else changed: an entry without id, without a date,
\* with an unparsable date, with an unknown id or naming a post that is not
\* SCHEDULED changes nothing and does not keep the other entries from being served
C34_RescheduleValidated ==
  \A c \in hist.reschedule : posts = Rescheduled(c.before, c.updates, 1)


(***************************************************************************)
(* Frame properties of planning and preview                                *)
(***************************************************************************)
\* C35: a planPosts call changes nothing but the status and scheduled_at of the
\* posts that were QUEUED and the last plan run: every other post keeps all its
\* fields, no post is added or removed, and with no post QUEUED the only change is
\* the last plan run, which is set to the time of the call
C35_PlanFrame ==
  [][Plan =>
       /\ DOMAIN posts' = DOMAIN posts
       /\ \A i \in DOMAIN posts :
            IF posts[i].status = "QUEUED"
            THEN posts'[i] = [posts[i] EXCEPT !.status = posts'[i].status,
                                              !.scheduled_at = posts'[i].scheduled_at]
            ELSE posts'[i] = posts[i]
       /\ (\A i \in DOMAIN posts : posts[i].status # "QUEUED") =>
            posts' = posts /\ lastPlanRun' = now
       /\ UNCHANGED <<autorun, config, loops, detached>>]_vars

\* a plan call has just scheduled a QUEUED post next to a post that is PUBLISHED
C35_Witness ==
  \E c \in hist.planned : \E i, j \in DOMAIN posts :
    /\ ~c.diverged /\ lastPlanRun = c.from
    /\ posts[i].ref \in Range(c.queued) /\ posts[i].status = "SCHEDULED"
    /\ posts[j].ref \notin Range(c.queued) /\ posts[j].status = "PUBLISHED"
    /\ posts[j].scheduled_at < posts[i].scheduled_at


C37_PreviewTerminates ==
  /\ \A c \in hist.preview : ~c.diverged
  /\ \A c \in hist.planned : ~c.diverged


(***************************************************************************)
(* Properties of the store under concurrent requests                       *)
(***************************************************************************)
\* C38: in every state the original_post_id of every repost is the id of a post
\* of the store that is not itself a repost
C38_RepostHasRoot ==
  \A i \in DOMAIN posts :
    posts[i].is_repost =>
      \E j \in DOMAIN posts : posts[j].id = posts[i].original_post_id /\ ~posts[j].is_repost

\* C39: a publish tick starts the remote protocol for a post (the tick begins to
\* await the post's Instagram or Facebook request) only if at that moment the post
\* is in the store, publishPost found it SCHEDULED, and its scheduled_at is at or
\* before the current time; a post deleted or moved into the future while the tick
\* awaited an earlier post is not started
C39_StartsOnlyDuePosts ==
  [][\A n \in BagToSet(loops') :
       CopiesIn(n, loops') > CopiesIn(n, loops) /\ n.cur \notin {l.cur : l \in BagToSet(loops)} =>
         /\ n.was = "SCHEDULED"
         /\ \E i \in DOMAIN posts' :
              posts'[i].ref = n.cur /\ posts'[i].scheduled_at <= now']_vars


\* the Post objects a run can allocate
LiveRefs == 1..MaxReadyPosts

\* the post behind ref is in the store, SCHEDULED and due, with autorun on
DueScheduled(ref) ==
  /\ autorun
  /\ \E i \in DOMAIN posts :
       /\ posts[i].ref = ref
       /\ posts[i].status = "SCHEDULED"
       /\ posts[i].scheduled_at <= now

\* the post behind ref is PUBLISHING, or was deleted, or was moved into the future
PublishingOrWithdrawn(ref) ==
  \/ \E i \in DOMAIN posts : posts[i].ref = ref /\ posts[i].status = "PUBLISHING"
  \/ ~\E i \in DOMAIN posts : posts[i].ref = ref
  \/ \E i \in DOMAIN posts : posts[i].ref = ref /\ posts[i].scheduled_at > now

\* C40: with autorun on and the publish tick weakly fair, every SCHEDULED post
\* whose scheduled_at is at or before the current time is eventually PUBLISHING,
\* unless it is deleted or rescheduled into the future first
C40_DuePostsGetPublishing ==
  \A ref \in LiveRefs : DueScheduled(ref) ~> PublishingOrWithdrawn(ref)

====
